---- MODULE Spec2Model ----
(***************************************************************************)
(* Model of src/minesweeper/minesweeper.py: the Minesweeper board, the     *)
(* Sentence class and the MinesweeperAI knowledge base with its move       *)
(* selectors.                                                              *)
(*                                                                         *)
(* Cells are pairs <<i, j>>, 0-indexed as in the code.  A Sentence object  *)
(* is a record [cells, count].  Python object identity matters inside      *)
(* add_knowledge / check_knowledge (list.remove removes the first          *)
(* structurally EQUAL element, which need not be the object being          *)
(* checked), so the operators that model those methods work on a           *)
(* computation state `st` that holds a heap of objects (st.heap, indexed   *)
(* by object id) and the list self.knowledge as a sequence of ids (st.kn). *)
(* Between calls only the list of values is observable: knowledge.         *)
(***************************************************************************)
EXTENDS Integers, Sequences, FiniteSets, TLC

\* ----------------------------------------------------------------------
\* Bounds of the model
\* ----------------------------------------------------------------------
MaxCells == 6
MaxMines == 2
MaxKnowledge == 4
MaxRandomCalls == 2
MaxPasses == 2

VARIABLES
    height,       \* MinesweeperAI.height (= Minesweeper.height)
    width,        \* MinesweeperAI.width (= Minesweeper.width)
    board,        \* Minesweeper.mines: the true mine cells of the board
    moves_made,   \* MinesweeperAI.moves_made
    mines,        \* MinesweeperAI.mines
    safes,        \* MinesweeperAI.safes
    knowledge,    \* MinesweeperAI.knowledge, as the list of sentence values
    all_cell,     \* Cell_stat.all_cell: class-level dict cell -> score
    ret,          \* value returned by the last move selector (None if none)
    raised,       \* TRUE iff the last call ended by raising an exception
    op,           \* name of the last operation that was called
    arg,          \* cell argument of the last add_knowledge (None otherwise)
    rcalls,       \* number of make_random_move calls so far
    passes,       \* number of resolution passes applied (SpecPass), of
                  \* successive identical mark calls (SpecUnit)
    start,        \* the list of sentences SpecPass started from
    target,       \* list position of the sentence the last call was made
                  \* on or with (0 if none)
    qret          \* value returned by the last known_mines / known_safes

vars == <<height, width, board, moves_made, mines, safes, knowledge,
          all_cell, ret, raised, op, arg, rcalls, passes, start, target,
          qret>>

None == <<>>

Cells == {<<i, j>> : i \in 0..(height - 1), j \in 0..(width - 1)}

\* ----------------------------------------------------------------------
\* Minesweeper (the board)
\* ----------------------------------------------------------------------
neighbourhood(cell) ==
    {c \in Cells : /\ c # cell
                   /\ c[1] \in (cell[1] - 1)..(cell[1] + 1)
                   /\ c[2] \in (cell[2] - 1)..(cell[2] + 1)}

nearby_mines(b, cell) == Cardinality(neighbourhood(cell) \cap b)

is_mine(b, cell) == cell \in b

\* ----------------------------------------------------------------------
\* Sentence
\* ----------------------------------------------------------------------
Sentence(cells, count) == [cells |-> cells, count |-> count]

\* A method that returns a set or (implicitly) None
NoSet == [some |-> FALSE, val |-> {}]
SomeSet(s) == [some |-> TRUE, val |-> s]
Truthy(r) == r.some /\ r.val # {}

\* Mutant: the `self.count != 0` test dropped.
known_mines_any_full(s) ==
    IF Cardinality(s.cells) = s.count THEN SomeSet(s.cells) ELSE NoSet

known_mines(s) ==
    IF s.count # 0 /\ Cardinality(s.cells) = s.count
    THEN SomeSet(s.cells)
    ELSE NoSet

\* Mutant: a sentence with one mine left taken for a sentence with none.
known_safes_off_by_one(s) ==
    IF s.count <= 1 THEN SomeSet(s.cells) ELSE NoSet

known_safes(s) ==
    IF s.count = 0 THEN SomeSet(s.cells) ELSE NoSet

\* Mutant: the `if cell in self.cells` test dropped.
Sentence_mark_mine_unguarded(s, cell) ==
    [cells |-> s.cells \ {cell}, count |-> s.count - 1]

\* Mutant: `self.count -= 1` forgotten.
Sentence_mark_mine_keeps_count(s, cell) ==
    IF cell \in s.cells
    THEN [cells |-> s.cells \ {cell}, count |-> s.count]
    ELSE s

Sentence_mark_mine(s, cell) ==
    IF cell \in s.cells
    THEN [cells |-> s.cells \ {cell}, count |-> s.count - 1]
    ELSE s

\* Mutant: `self.cells = new_cells` forgotten.
Sentence_mark_safe_keeps_cell(s, cell) == s

\* Mutant: the body of mark_mine copied, count decremented.
Sentence_mark_safe_decrements(s, cell) ==
    IF cell \in s.cells
    THEN [cells |-> s.cells \ {cell}, count |-> s.count - 1]
    ELSE s

Sentence_mark_safe(s, cell) ==
    IF cell \in s.cells
    THEN [cells |-> s.cells \ {cell}, count |-> s.count]
    ELSE s

\* ----------------------------------------------------------------------
\* MinesweeperAI: fact propagation
\* ----------------------------------------------------------------------
InList(st, id) == \E i \in 1..Len(st.kn) : st.kn[i] = id

\* Mutant: the cell is recorded as a mine, the sentences are left as they
\* are.
mark_mine_not_propagated(st, cell) == [st EXCEPT !.mines = @ \cup {cell}]

mark_mine(st, cell) ==
    [st EXCEPT !.mines = @ \cup {cell},
               !.heap = [id \in DOMAIN st.heap |->
                            IF InList(st, id)
                            THEN Sentence_mark_mine(st.heap[id], cell)
                            ELSE st.heap[id]]]

\* Mutant: the cell is recorded as safe, the sentences are left as they are.
mark_safe_not_propagated(st, cell) == [st EXCEPT !.safes = @ \cup {cell}]

mark_safe(st, cell) ==
    [st EXCEPT !.safes = @ \cup {cell},
               !.heap = [id \in DOMAIN st.heap |->
                            IF InList(st, id)
                            THEN Sentence_mark_safe(st.heap[id], cell)
                            ELSE st.heap[id]]]

\* `for cell in S: self.mark_mine(cell)` over a set object S that the loop
\* body never mutates (Sentence.mark_mine rebinds self.cells to a new set).
\* The iteration order of a Python set is unspecified; the calls for two
\* different cells commute, so one order is taken.
RECURSIVE mark_mine_all(_, _)
mark_mine_all(st, S) ==
    IF S = {} THEN st
    ELSE LET c == CHOOSE x \in S : TRUE
         IN mark_mine_all(mark_mine(st, c), S \ {c})

RECURSIVE mark_safe_all(_, _)
mark_safe_all(st, S) ==
    IF S = {} THEN st
    ELSE LET c == CHOOSE x \in S : TRUE
         IN mark_safe_all(mark_safe(st, c), S \ {c})

\* ----------------------------------------------------------------------
\* MinesweeperAI: resolution and subset derivation
\* ----------------------------------------------------------------------

\* self.knowledge.remove(sentence): list.remove deletes the FIRST element
\* that compares equal (Sentence.__eq__: same cells and same count) to the
\* value v of the argument, and raises ValueError when there is none.
remove(st, v) ==
    LET idxs == {i \in 1..Len(st.kn) : st.heap[st.kn[i]] = v}
    IN IF idxs = {}
       THEN [st EXCEPT !.err = TRUE]
       ELSE LET j == CHOOSE i \in idxs : \A k \in idxs : i <= k
            IN [st EXCEPT !.kn = [i \in 1..(Len(st.kn) - 1) |->
                                     IF i < j THEN st.kn[i] ELSE st.kn[i + 1]]]

\* Mutant: the commented-out `self.knowledge.remove(sentence2)` of the
\* subset branch put back.
RECURSIVE subset_loop_removes_subset(_, _, _)
subset_loop_removes_subset(st, sid, i) ==
    IF st.err \/ i > Len(st.kn) THEN st
    ELSE LET id2 == st.kn[i]
             h0 == st.heap
             sub == h0[id2].cells \subseteq h0[sid].cells
                       /\ h0[id2].cells # h0[sid].cells
             h1 == IF sub
                   THEN [h0 EXCEPT ![sid] =
                            [cells |-> h0[sid].cells \ h0[id2].cells,
                             count |-> h0[sid].count - h0[id2].count]]
                   ELSE h0
             st1 == IF sub THEN remove([st EXCEPT !.heap = h1], h1[id2])
                    ELSE st
         IN subset_loop_removes_subset(st1, sid, i + 1)

\* Lines 281-291: `for sentence2 in self.knowledge`, from list position i.
\* sid is the object bound to `sentence` (in the list or already removed).
RECURSIVE subset_loop(_, _, _)
subset_loop(st, sid, i) ==
    IF i > Len(st.kn) THEN st
    ELSE LET id2 == st.kn[i]
             h0 == st.heap
             h1 == IF h0[id2].cells \subseteq h0[sid].cells
                      /\ h0[id2].cells # h0[sid].cells
                   THEN [h0 EXCEPT ![sid] =
                            [cells |-> h0[sid].cells \ h0[id2].cells,
                             count |-> h0[sid].count - h0[id2].count]]
                   ELSE h0
             h2 == IF h1[sid].cells \subseteq h1[id2].cells
                      /\ h1[id2].cells # h1[sid].cells
                   THEN [h1 EXCEPT ![id2] =
                            [cells |-> h1[id2].cells \ h1[sid].cells,
                             count |-> h1[id2].count - h1[sid].count]]
                   ELSE h1
         IN subset_loop([st EXCEPT !.heap = h2], sid, i + 1)

\* Lines 270-279: the three resolution branches.
resolve(st, sid) ==
    LET s == st.heap[sid]
    IN IF Cardinality(s.cells) = 0
       THEN remove(st, s)
       ELSE IF s.count = 0
       THEN LET m == mark_safe_all(st, s.cells)
            IN remove(m, m.heap[sid])
       ELSE IF Cardinality(s.cells) = s.count
       THEN LET m == mark_mine_all(st, s.cells)
            IN remove(m, m.heap[sid])
       ELSE st

\* Mutant: the subset derivation is left out.
check_knowledge_resolve_only(st, sid) == resolve(st, sid)

\* Mutant: the resolution branches are run again after the derivation,
\* also on a sentence the first run has removed.
check_knowledge_resolve_again(st, sid) ==
    LET st1 == resolve(st, sid)
        st2 == IF st1.err THEN st1 ELSE subset_loop(st1, sid, 1)
    IN IF st2.err THEN st2 ELSE resolve(st2, sid)

check_knowledge(st, sid) ==
    LET st1 == resolve(st, sid)
    IN IF st1.err THEN st1 ELSE subset_loop(st1, sid, 1)

\* `for sentence in self.knowledge: self.check_knowledge(sentence)`.
\* The list iterator keeps a position; check_knowledge removes elements
\* from the list while it is being scanned, so the element that slides
\* into a visited position is skipped.  i is the next position (1-based).
RECURSIVE resolution_pass(_, _)
resolution_pass(st, i) ==
    IF st.err \/ i > Len(st.kn) THEN st
    ELSE resolution_pass(check_knowledge(st, st.kn[i]), i + 1)

\* ----------------------------------------------------------------------
\* MinesweeperAI.add_knowledge
\* ----------------------------------------------------------------------

\* Mutant: `self.moves_made = {cell}` in place of `self.moves_made.add(cell)`.
record_move_forgets(st, cell) ==
    LET s1 == [st EXCEPT !.moves_made = {cell}]
    IN IF cell \notin s1.safes THEN mark_safe(s1, cell) ELSE s1

\* Steps 1 and 2 (lines 225-231)
record_move(st, cell) ==
    LET s1 == [st EXCEPT !.moves_made = @ \cup {cell}]
    IN IF cell \notin s1.safes THEN mark_safe(s1, cell) ELSE s1

\* Lines 242-244: `for cell in NewSentence.cells: if cell in self.mines:
\* NewSentence.mark_mine(cell)`, over the cells S still to be visited.
RECURSIVE strip_known_mines(_, _, _)
strip_known_mines(s, S, known) ==
    IF S = {} THEN s
    ELSE LET c == CHOOSE x \in S : TRUE
         IN strip_known_mines(IF c \in known THEN Sentence_mark_mine(s, c)
                                             ELSE s,
                              S \ {c}, known)

\* Mutant: known mines are left in the new sentence.
NewSentence_keeps_known_mines(st, cell, count) ==
    Sentence(neighbourhood(cell) \ st.safes, count)

\* Step 3 (lines 238-244): the sentence that is about to be appended.
NewSentence(st, cell, count) ==
    LET cells == neighbourhood(cell) \ st.safes
    IN strip_known_mines(Sentence(cells, count), cells, st.mines)

\* Line 246
append(st, s) ==
    [st EXCEPT !.heap = Append(@, s), !.kn = Append(@, Len(st.heap) + 1)]

\* Step 4 (lines 250-256), from list position i.
RECURSIVE conclude_loop(_, _)
conclude_loop(st, i) ==
    IF i > Len(st.kn) THEN st
    ELSE LET id == st.kn[i]
             km == known_mines(st.heap[id])
             a == IF Truthy(km) THEN mark_mine_all(st, km.val) ELSE st
             ks == known_safes(a.heap[id])
             b == IF Truthy(ks) THEN mark_safe_all(a, ks.val) ELSE a
         IN conclude_loop(b, i + 1)

\* Lines 259-263
RECURSIVE saturate(_, _)
saturate(st, n) ==
    IF n = 0 \/ st.err THEN st
    ELSE saturate(resolution_pass(st, 1), n - 1)

add_knowledge(st, cell, count) ==
    LET s2 == record_move(st, cell)
        s3 == append(s2, NewSentence(s2, cell, count))
        newid == Len(s3.heap)
        s4 == conclude_loop(s3, 1)
        s5 == check_knowledge(s4, newid)
    IN saturate(s5, 2)

\* ----------------------------------------------------------------------
\* The state between calls, as a computation state and back
\* ----------------------------------------------------------------------
ToSt ==
    [moves_made |-> moves_made, mines |-> mines, safes |-> safes,
     heap |-> knowledge, kn |-> [i \in 1..Len(knowledge) |-> i],
     err |-> FALSE]

ListOf(st) == [i \in 1..Len(st.kn) |-> st.heap[st.kn[i]]]

\* ----------------------------------------------------------------------
\* Move selectors
\* ----------------------------------------------------------------------

\* Mutant: moves already made are not excluded.
make_safe_move_any_safe(sf, mm) ==
    IF sf = {} THEN {None} ELSE sf

\* Lines 319-320: the first cell of safes.difference(moves_made) in the
\* set's iteration order (unspecified: any member), None if it is empty.
make_safe_move(sf, mm) ==
    IF sf \ mm = {} THEN {None} ELSE sf \ mm

\* Scores are the floats count / len(cells) and their sums.  They are
\* modelled as exact fractions <<numerator, denominator>> in lowest terms;
\* two sums that differ as fractions differ by far more than the rounding
\* error of the float sum, and a tie is broken in any way (see min_keys).
RECURSIVE GCD(_, _)
GCD(a, b) == IF b = 0 THEN a ELSE GCD(b, a % b)

Abs(n) == IF n < 0 THEN -n ELSE n

Frac(n, d) == LET g == GCD(Abs(n), d) IN <<n \div g, d \div g>>

FracAdd(x, y) == Frac(x[1] * y[2] + y[1] * x[2], x[2] * y[2])

FracLeq(x, y) == x[1] * y[2] <= y[1] * x[2]

\* Lines 333-338 for one sentence s with at least one cell.
add_scores(m, s) ==
    LET p == Frac(s.count, Cardinality(s.cells))
    IN [c \in (DOMAIN m) \cup s.cells |->
           IF c \notin s.cells THEN m[c]
           ELSE IF c \in DOMAIN m THEN FracAdd(m[c], p)
           ELSE p]

\* Lines 331-338: `for sentence in self.knowledge`, from list position i,
\* updating the class-level dict m.  len(sentence.cells) = 0 raises
\* ZeroDivisionError and leaves the dict as updated so far.
RECURSIVE score_loop(_, _, _)
score_loop(m, kn, i) ==
    IF i > Len(kn) THEN [map |-> m, err |-> FALSE]
    ELSE IF Cardinality(kn[i].cells) = 0 THEN [map |-> m, err |-> TRUE]
    ELSE score_loop(add_scores(m, kn[i]), kn, i + 1)

\* Line 342: min(all_cell, key=all_cell.get) returns the first key, in the
\* dict's insertion order, whose value is minimal.  The insertion order
\* follows the iteration order of Python sets, which is unspecified, so
\* every key of minimal value is a possible result.
min_keys(m) ==
    {c \in DOMAIN m : \A d \in DOMAIN m : FracLeq(m[c], m[d])}

\* Lines 346-349: the first cell in row-major order that is neither a
\* known mine nor a move made; falling off the loops returns None.
first_free(mn, mm) ==
    LET free == Cells \ (mn \cup mm)
    IN IF free = {} THEN {None}
       ELSE {c \in free : \A d \in free :
                \/ c[1] < d[1]
                \/ (c[1] = d[1] /\ c[2] <= d[2])}

\* Lines 341-349: the possible return values for the dict m.
random_choice(m, mn, mm) ==
    IF DOMAIN m # {} THEN min_keys(m) ELSE first_free(mn, mm)

\* ----------------------------------------------------------------------
\* Specification
\* ----------------------------------------------------------------------
\* The boards of at most MaxCells cells
Shapes == {hw \in (1..MaxCells) \X (1..MaxCells) : hw[1] * hw[2] <= MaxCells}

Boards == {b \in SUBSET Cells : Cardinality(b) <= MaxMines}

Init ==
    /\ \E hw \in Shapes : height = hw[1] /\ width = hw[2]
    /\ board \in Boards
    /\ moves_made = {}
    /\ mines = {}
    /\ safes = {}
    /\ knowledge = <<>>
    /\ all_cell = <<>>
    /\ ret = None
    /\ raised = FALSE
    /\ op = "init"
    /\ arg = None
    /\ rcalls = 0
    /\ passes = 0
    /\ start = <<>>
    /\ target = 0
    /\ qret = NoSet

\* The game reveals a cell that is not a mine and reports the true
\* number of mines around it.  A behaviour is followed as long as the list
\* of sentences is shorter than MaxKnowledge and, in SpecRandom, up to the
\* last of the MaxRandomCalls calls of make_random_move.
AddKnowledge ==
    \E cell \in Cells \ board :
        /\ Len(knowledge) < MaxKnowledge
        /\ rcalls < MaxRandomCalls
        /\ LET st == add_knowledge(ToSt, cell, nearby_mines(board, cell))
           IN /\ moves_made' = st.moves_made
              /\ mines' = st.mines
              /\ safes' = st.safes
              /\ knowledge' = ListOf(st)
              /\ raised' = st.err
        /\ op' = "add_knowledge"
        /\ arg' = cell
        /\ ret' = None
        /\ UNCHANGED <<height, width, board, all_cell, rcalls, passes,
                       start, target, qret>>

MakeSafeMove ==
    /\ ret' \in make_safe_move(safes, moves_made)
    /\ raised' = FALSE
    /\ op' = "make_safe_move"
    /\ arg' = None
    /\ UNCHANGED <<height, width, board, moves_made, mines, safes, knowledge,
                   all_cell, rcalls, passes, start, target, qret>>

MakeRandomMove ==
    /\ rcalls < MaxRandomCalls
    /\ LET r == score_loop(all_cell, knowledge, 1)
       IN /\ all_cell' = r.map
          /\ raised' = r.err
          /\ ret' \in IF r.err THEN {None}
                      ELSE random_choice(r.map, mines, moves_made)
    /\ rcalls' = rcalls + 1
    /\ op' = "make_random_move"
    /\ arg' = None
    /\ UNCHANGED <<height, width, board, moves_made, mines, safes, knowledge,
                   passes, start, target, qret>>

\* The knowledge base as the game drives it: add_knowledge after every
\* reveal and make_safe_move.  make_random_move reads the knowledge base
\* and writes only Cell_stat.all_cell, which nothing else reads; it is
\* part of SpecRandom.
Next == AddKnowledge \/ MakeSafeMove

Spec == Init /\ [][Next]_vars

\* add_knowledge interleaved with make_random_move.  make_safe_move writes
\* nothing that either of them reads.
NextRandom == AddKnowledge \/ MakeRandomMove

SpecRandom == Init /\ [][NextRandom]_vars

\* ----------------------------------------------------------------------
\* Resolution passes on a given list of sentences (SpecPass)
\* ----------------------------------------------------------------------
\* The sentences are over the cells that add_knowledge((0, 0), n) puts
\* into its new sentence on a fresh board, with the count the board gives.
PassCells == neighbourhood(<<0, 0>>)

PassSentences(b) ==
    {Sentence(C, Cardinality(C \cap b)) : C \in (SUBSET PassCells) \ {{}}}

InitPass ==
    /\ \E hw \in Shapes : height = hw[1] /\ width = hw[2]
    /\ board \in Boards
    /\ knowledge \in {<<s1, s2>> : s1 \in PassSentences(board),
                                   s2 \in PassSentences(board)}
    /\ start = knowledge
    /\ moves_made = {}
    /\ mines = {}
    /\ safes = {}
    /\ all_cell = <<>>
    /\ ret = None
    /\ raised = FALSE
    /\ op = "init"
    /\ arg = None
    /\ rcalls = 0
    /\ passes = 0
    /\ target = 0
    /\ qret = NoSet

\* One resolution pass: the body of `for i in range(2)` (lines 261-263).
Pass ==
    /\ passes < MaxPasses
    /\ LET st == resolution_pass(ToSt, 1)
       IN /\ moves_made' = st.moves_made
          /\ mines' = st.mines
          /\ safes' = st.safes
          /\ knowledge' = ListOf(st)
          /\ raised' = st.err
    /\ passes' = passes + 1
    /\ op' = "pass"
    /\ UNCHANGED <<height, width, board, all_cell, ret, arg, rcalls, start,
                   target, qret>>

NextPass == Pass

SpecPass == InitPass /\ [][NextPass]_vars

\* ----------------------------------------------------------------------
\* Sentence methods called directly on the sentences of a list
\* ----------------------------------------------------------------------

\* Two sentences about the neighbours of the corner; mines elsewhere on the
\* board do not show in them.
InitSentence == InitPass /\ board \subseteq PassCells

\* Cells inside and outside the sentences
SentenceArgs == PassCells \cup {<<0, 0>>}

\* knowledge[i].mark_mine(cell)
SentenceMarkMine ==
    /\ op = "init"
    /\ \E i \in 1..Len(knowledge), cell \in SentenceArgs :
        /\ knowledge' = [knowledge EXCEPT
                             ![i] = Sentence_mark_mine(knowledge[i], cell)]
        /\ target' = i
        /\ arg' = cell
    /\ op' = "Sentence.mark_mine"
    /\ UNCHANGED <<height, width, board, moves_made, mines, safes, all_cell,
                   ret, raised, rcalls, passes, start, qret>>

\* knowledge[i].mark_safe(cell)
SentenceMarkSafe ==
    /\ op = "init"
    /\ \E i \in 1..Len(knowledge), cell \in SentenceArgs :
        /\ knowledge' = [knowledge EXCEPT
                             ![i] = Sentence_mark_safe(knowledge[i], cell)]
        /\ target' = i
        /\ arg' = cell
    /\ op' = "Sentence.mark_safe"
    /\ UNCHANGED <<height, width, board, moves_made, mines, safes, all_cell,
                   ret, raised, rcalls, passes, start, qret>>

\* knowledge[i].known_mines(), on a fresh or a marked sentence
KnownMines ==
    /\ op \in {"init", "Sentence.mark_mine", "Sentence.mark_safe"}
    /\ \E i \in 1..Len(knowledge) :
        /\ qret' = known_mines(knowledge[i])
        /\ target' = i
    /\ op' = "known_mines"
    /\ UNCHANGED <<height, width, board, moves_made, mines, safes, knowledge,
                   all_cell, ret, raised, arg, rcalls, passes, start>>

\* knowledge[i].known_safes(), on a fresh or a marked sentence
KnownSafes ==
    /\ op \in {"init", "Sentence.mark_mine", "Sentence.mark_safe"}
    /\ \E i \in 1..Len(knowledge) :
        /\ qret' = known_safes(knowledge[i])
        /\ target' = i
    /\ op' = "known_safes"
    /\ UNCHANGED <<height, width, board, moves_made, mines, safes, knowledge,
                   all_cell, ret, raised, arg, rcalls, passes, start>>

NextSentence ==
    SentenceMarkMine \/ SentenceMarkSafe \/ KnownMines \/ KnownSafes

SpecSentence == InitSentence /\ [][NextSentence]_vars

\* ----------------------------------------------------------------------
\* Single calls of the MinesweeperAI methods on a given knowledge base
\* ----------------------------------------------------------------------

\* Lists of one to three true sentences about the neighbours of the corner
UnitLists(b) ==
    {<<s1>> : s1 \in PassSentences(b)}
    \cup {<<s1, s2>> : s1 \in PassSentences(b), s2 \in PassSentences(b)}
    \cup {<<s1, s2, s3>> : s1 \in PassSentences(b), s2 \in PassSentences(b),
                           s3 \in PassSentences(b)}

\* The corner has been revealed and the list holds sentences about its
\* neighbours; the mines are among these neighbours.
InitUnit ==
    /\ \E hw \in Shapes : height = hw[1] /\ width = hw[2]
    /\ board \in Boards
    /\ board \subseteq PassCells
    /\ moves_made = {<<0, 0>>}
    /\ safes = {<<0, 0>>}
    /\ mines = {}
    /\ knowledge \in UnitLists(board)
    /\ start = knowledge
    /\ all_cell = <<>>
    /\ ret = None
    /\ raised = FALSE
    /\ op = "init"
    /\ arg = None
    /\ rcalls = 0
    /\ passes = 0
    /\ target = 0
    /\ qret = NoSet

\* ai.mark_mine(cell), once, then again with the same cell
MarkMine ==
    \E cell \in Cells :
        /\ op = "init" \/ (op = "mark_mine" /\ arg = cell)
        /\ passes < MaxPasses
        /\ LET st == mark_mine(ToSt, cell)
           IN /\ moves_made' = st.moves_made
              /\ mines' = st.mines
              /\ safes' = st.safes
              /\ knowledge' = ListOf(st)
        /\ passes' = passes + 1
        /\ op' = "mark_mine"
        /\ arg' = cell
        /\ UNCHANGED <<height, width, board, all_cell, ret, raised, rcalls,
                       start, target, qret>>

\* ai.mark_safe(cell), once, then again with the same cell
MarkSafe ==
    \E cell \in Cells :
        /\ op = "init" \/ (op = "mark_safe" /\ arg = cell)
        /\ passes < MaxPasses
        /\ LET st == mark_safe(ToSt, cell)
           IN /\ moves_made' = st.moves_made
              /\ mines' = st.mines
              /\ safes' = st.safes
              /\ knowledge' = ListOf(st)
        /\ passes' = passes + 1
        /\ op' = "mark_safe"
        /\ arg' = cell
        /\ UNCHANGED <<height, width, board, all_cell, ret, raised, rcalls,
                       start, target, qret>>

\* ai.check_knowledge(ai.knowledge[i])
CheckKnowledge ==
    /\ op = "init"
    /\ \E i \in 1..Len(knowledge) :
        /\ LET st == check_knowledge(ToSt, i)
           IN /\ moves_made' = st.moves_made
              /\ mines' = st.mines
              /\ safes' = st.safes
              /\ knowledge' = ListOf(st)
              /\ raised' = st.err
        /\ target' = i
    /\ op' = "check_knowledge"
    /\ UNCHANGED <<height, width, board, all_cell, ret, arg, rcalls, passes,
                   start, qret>>

\* One call of any of the six methods (a mark call may be repeated).
NextUnit ==
    \/ MarkMine
    \/ MarkSafe
    \/ CheckKnowledge
    \/ op = "init" /\ AddKnowledge
    \/ op = "init" /\ MakeSafeMove
    \/ op = "init" /\ MakeRandomMove

SpecUnit == InitUnit /\ [][NextUnit]_vars

\* ----------------------------------------------------------------------
\* Properties
\* ----------------------------------------------------------------------
Sentences == {knowledge[i] : i \in 1..Len(knowledge)}

\* C1: after any sequence of add_knowledge calls with a non-mine cell and
\* the true count, every active sentence has 0 <= count <= |cells|.
C1_CountWithinCells ==
    \A s \in Sentences : 0 <= s.count /\ s.count <= Cardinality(s.cells)

\* add_knowledge has returned leaving a sentence with 0 < count < |cells|
\* next to another sentence.
C1_Witness ==
    /\ op = "add_knowledge"
    /\ Len(knowledge) >= 2
    /\ \E s \in Sentences : 0 < s.count /\ s.count < Cardinality(s.cells)

\* C2: no cell is both a known safe and a known mine.
C2_SafesMinesDisjoint == safes \cap mines = {}

\* add_knowledge has concluded both safes (other than the moves made) and
\* mines.
C2_Witness ==
    /\ op = "add_knowledge"
    /\ mines # {}
    /\ safes \ moves_made # {}

\* C3: inference is sound with respect to the board: every active sentence
\* has exactly `count` mines of the board among its cells, every known mine
\* is a mine of the board, no known safe is one, and make_safe_move never
\* returns a mine.
C3_Sound ==
    /\ \A s \in Sentences : Cardinality(s.cells \cap board) = s.count
    /\ mines \subseteq board
    /\ safes \cap board = {}
    /\ (op = "make_safe_move" /\ ret # None) => ~is_mine(board, ret)

\* make_safe_move has returned an inferred safe cell while a mine is known
\* and a sentence is still undetermined.
C3_Witness ==
    /\ op = "make_safe_move"
    /\ ret # None
    /\ mines # {}
    /\ knowledge # <<>>

\* C4: whenever add_knowledge has returned, no active sentence is fully
\* resolved: none has an empty cell set, a count of 0, or a count equal to
\* the size of its cell set.
C4_NoResolvedSentence ==
    \A s \in Sentences :
        /\ s.cells # {}
        /\ s.count # 0
        /\ s.count # Cardinality(s.cells)

\* The cells 1, 2, 3 and the sentences A and B of the subset-derivation
\* scenario.
Cell1 == <<0, 1>>
Cell2 == <<1, 0>>
Cell3 == <<1, 1>>
SentenceA == Sentence({Cell1, Cell2, Cell3}, 2)
SentenceB == Sentence({Cell1, Cell2}, 1)
StartsAB == start = <<SentenceA, SentenceB>>
StartsBA == start = <<SentenceB, SentenceA>>
Derived == Sentence({Cell3}, 1) \in Sentences \/ Cell3 \in mines

\* C5 as stated: with A = ({1,2,3}, 2) and B = ({1,2}, 1) active in either
\* order, after one resolution pass ({3}, 1) has been derived and cell 3
\* is in mines.
C5_AfterOnePass ==
    ((StartsAB \/ StartsBA) /\ passes = 1) => (Derived /\ Cell3 \in mines)

\* C5 amended: after one pass ({3}, 1) has been derived in either order
\* (A mutated to it when A comes first, already resolved into mines when B
\* comes first); cell 3 is in mines after one pass when B precedes A and
\* after the second pass in either order.
C5_AfterTwoPasses ==
    /\ (StartsAB /\ passes = 1) =>
           /\ knowledge = <<Sentence({Cell3}, 1), SentenceB>>
           /\ Cell3 \notin mines
    /\ (StartsBA /\ passes = 1) =>
           /\ knowledge = <<SentenceB>>
           /\ Cell3 \in mines
    /\ ((StartsAB \/ StartsBA) /\ passes >= 2) =>
           /\ knowledge = <<SentenceB>>
           /\ Cell3 \in mines

\* Two passes have run on <<A, B>> and cell 3 is a known mine.
C5_Witness == StartsAB /\ passes = 2 /\ Cell3 \in mines

\* C6: the sentence add_knowledge(cell, count) inserts has, when it is
\* inserted, cells = neighbours minus known safes minus known mines and
\* count = count minus the number of neighbours that are known mines; the
\* cell is in moves_made and in safes before the sentence is built.  (The
\* last conjunct adds that the inserted sentence carries the board's count.)
C6_InsertedSentence ==
    [][op' = "add_knowledge" =>
         LET cell == arg'
             count == nearby_mines(board, cell)
             st == record_move(ToSt, cell)
             new == NewSentence(st, cell, count)
         IN /\ cell \in st.moves_made
            /\ cell \in st.safes
            /\ new.cells = (neighbourhood(cell) \ st.safes) \ st.mines
            /\ new.count =
                 count - Cardinality(neighbourhood(cell) \cap st.mines)
            /\ Cardinality(new.cells \cap board) = new.count]_vars

\* add_knowledge has returned and a further call is possible for a cell
\* with a known mine and a known safe among its neighbours.
C6_Witness ==
    /\ op = "add_knowledge"
    /\ Len(knowledge) < MaxKnowledge
    /\ \E cell \in Cells \ board :
          /\ neighbourhood(cell) \cap mines # {}
          /\ neighbourhood(cell) \cap safes # {}

\* C7: make_safe_move returns a cell of safes \ moves_made when there is
\* one, returns None exactly when there is none, and changes neither
\* mines, safes, moves_made nor the active sentences.
C7_SafeMove ==
    [][op' = "make_safe_move" =>
         /\ (safes \ moves_made # {} => ret' \in safes \ moves_made)
         /\ (ret' = None <=> safes \ moves_made = {})
         /\ raised' = FALSE
         /\ UNCHANGED <<mines, safes, moves_made, knowledge>>]_vars

\* make_safe_move has returned a cell while a move made is also safe.
C7_Witness ==
    /\ op = "make_safe_move"
    /\ ret # None
    /\ moves_made # {}

\* make_safe_move has returned None after moves were made.
C7_WitnessNone ==
    /\ op = "make_safe_move"
    /\ ret = None
    /\ moves_made # {}

\* C8: the cell make_random_move returns is neither a move already made
\* nor a known mine.
C8_RandomMoveIsNew ==
    (op = "make_random_move" /\ ret # None) =>
        (ret \notin moves_made /\ ret \notin mines)

\* The score of a cell over the sentences that are active now.
RECURSIVE ScoreFrom(_, _)
ScoreFrom(c, i) ==
    IF i > Len(knowledge) THEN <<0, 1>>
    ELSE IF c \in knowledge[i].cells
    THEN FracAdd(Frac(knowledge[i].count, Cardinality(knowledge[i].cells)),
                 ScoreFrom(c, i + 1))
    ELSE ScoreFrom(c, i + 1)

Referenced == UNION {s.cells : s \in Sentences}

\* C9: when an active sentence references a cell, make_random_move returns
\* a cell of minimal score, the score being summed over the sentences
\* active at the time of the call only.
C9_MinimalCurrentScore ==
    (op = "make_random_move" /\ Referenced # {}) =>
        /\ ret \in Referenced
        /\ \A d \in Referenced : FracLeq(ScoreFrom(ret, 1), ScoreFrom(d, 1))

\* C10: make_safe_move and make_random_move never raise; the absence of a
\* move is reported as None only.
C10_SelectorsNeverRaise ==
    (op \in {"make_safe_move", "make_random_move"}) => ~raised

\* Row-major order of the cells
RowMajorLeq(c, d) == c[1] < d[1] \/ (c[1] = d[1] /\ c[2] <= d[2])

\* C11: when no active sentence references a cell, make_random_move
\* returns the first cell in row-major order that is not in mines or
\* moves_made, and None when there is no such cell, whatever calls of
\* make_random_move came before.
C11_FallbackWhenEmpty ==
    (op = "make_random_move" /\ Referenced = {}) =>
        LET free == Cells \ (mines \cup moves_made)
        IN IF free = {} THEN ret = None
           ELSE ret \in free /\ \A d \in free : RowMajorLeq(ret, d)


\* C12: Sentence.mark_mine(cell) with cell in cells removes exactly that
\* cell and decreases count by exactly 1; Sentence.mark_safe(cell) with
\* cell in cells removes exactly that cell and leaves count unchanged;
\* with cell not in cells both fields are unchanged; no other sentence of
\* the list is affected.
C12_SentenceMutation ==
    [][op' \in {"Sentence.mark_mine", "Sentence.mark_safe"} =>
          LET s == knowledge[target']
              t == knowledge'[target']
              dec == IF op' = "Sentence.mark_mine" THEN 1 ELSE 0
          IN /\ Len(knowledge') = Len(knowledge)
             /\ \A j \in 1..Len(knowledge) :
                    j # target' => knowledge'[j] = knowledge[j]
             /\ arg' \in s.cells =>
                    /\ t.cells = s.cells \ {arg'}
                    /\ t.count = s.count - dec
             /\ arg' \notin s.cells => t = s]_vars

\* Sentence.mark_mine has removed a cell of a sentence with several cells.
C12_Witness ==
    /\ op = "Sentence.mark_mine"
    /\ arg \in start[target].cells
    /\ knowledge[target].cells # {}
    /\ knowledge[target].count = start[target].count - 1

\* C13: known_safes() returns the full cell set if count = 0 and None
\* otherwise; known_mines() returns the full cell set if count > 0 and
\* count = |cells| and None otherwise; no sentence gets a non-None answer
\* from both.
C13_TerminalQueries ==
    /\ op = "known_safes" =>
           qret = IF knowledge[target].count = 0
                  THEN SomeSet(knowledge[target].cells) ELSE NoSet
    /\ op = "known_mines" =>
           qret = IF knowledge[target].count > 0
                     /\ knowledge[target].count
                            = Cardinality(knowledge[target].cells)
                  THEN SomeSet(knowledge[target].cells) ELSE NoSet
    /\ \A s \in Sentences : ~(known_mines(s).some /\ known_safes(s).some)

\* known_mines has answered with the cells of a sentence of two cells or
\* more while the other sentence of the list is a known safe set.
C13_Witness ==
    /\ op = "known_mines"
    /\ qret.some
    /\ Cardinality(qret.val) >= 2
    /\ \E s \in Sentences : known_safes(s).some

\* C14: calling MinesweeperAI.mark_mine(c) twice in succession leaves
\* mines, safes, moves_made and every active sentence as they were after
\* the first call; the same holds for mark_safe(c).
C14_MarkIdempotent ==
    [][((op = "mark_mine" /\ op' = "mark_mine")
            \/ (op = "mark_safe" /\ op' = "mark_safe")) /\ arg' = arg
          => UNCHANGED <<mines, safes, moves_made, knowledge>>]_vars

\* mark_mine(c) has been called twice on a list where the first call took
\* c out of a sentence.
C14_Witness ==
    /\ op = "mark_mine"
    /\ passes = 2
    /\ \E i \in 1..Len(start) : arg \in start[i].cells
    /\ arg \in mines

\* C15: when add_knowledge(cell, 0) returns, every in-bounds neighbour of
\* cell is in safes and none of them is in an active sentence.
C15_ZeroReveal ==
    (op = "add_knowledge" /\ nearby_mines(board, arg) = 0) =>
        /\ neighbourhood(arg) \subseteq safes
        /\ \A s \in Sentences : s.cells \cap neighbourhood(arg) = {}

\* add_knowledge(cell, 0) has returned on a board with mines, with other
\* sentences still active and with at least three neighbours of cell.
C15_Witness ==
    /\ op = "add_knowledge"
    /\ nearby_mines(board, arg) = 0
    /\ board # {}
    /\ Cardinality(neighbourhood(arg)) >= 3
    /\ knowledge # <<>>

\* C16: an add_knowledge(cell, count) call repeated right after the same
\* call leaves mines, safes, moves_made and the list of active sentences
\* as the first call left them.
C16_RepeatIsBenign ==
    [][(op = "add_knowledge" /\ op' = "add_knowledge" /\ arg' = arg)
          => UNCHANGED <<mines, safes, moves_made, knowledge>>]_vars

\* C20: every add_knowledge call with an in-bounds cell and the count the
\* board gives completes without raising; every removal in
\* check_knowledge finds an equal sentence in the list.
C20_AddKnowledgeTotal == op = "add_knowledge" => ~raised

\* add_knowledge has returned after check_knowledge removed sentences from
\* the list: three calls have left fewer than three sentences.
C20_Witness ==
    /\ op = "add_knowledge"
    /\ Cardinality(moves_made) >= 3
    /\ Len(knowledge) < Cardinality(moves_made)
    /\ knowledge # <<>>
    /\ ~raised

\* A sentence none of the three resolution branches of check_knowledge
\* applies to
Unresolved(s) ==
    s.cells # {} /\ s.count # 0 /\ Cardinality(s.cells) # s.count

StrictSubset(A, B) == A \subseteq B /\ A # B

\* C17 as stated: in check_knowledge(S), for each active T with T.cells a
\* strict subset of S.cells only S changes, to S minus T, and T keeps its
\* cells and count; for each T with T.cells a strict superset of S.cells
\* only T changes, to T minus S, and S is unchanged; the derivation
\* removes no sentence from the list.
C17_ComparedSentenceIntact ==
    [][(op' = "check_knowledge" /\ Unresolved(knowledge[target'])) =>
          LET S == knowledge[target']
          IN /\ Len(knowledge') = Len(knowledge)
             /\ \A j \in (1..Len(knowledge)) \ {target'} :
                    LET T == knowledge[j]
                    IN /\ StrictSubset(T.cells, S.cells) =>
                              /\ knowledge'[j] = T
                              /\ knowledge'[target']
                                     = Sentence(S.cells \ T.cells,
                                                S.count - T.count)
                       /\ StrictSubset(S.cells, T.cells) =>
                              /\ knowledge'[j]
                                     = Sentence(T.cells \ S.cells,
                                                T.count - S.count)
                              /\ knowledge'[target'] = S]_vars

\* C17 amended: the derivation of check_knowledge(S) removes no sentence
\* and only takes cells out of sentences; a sentence other than S loses
\* only cells of S; every sentence stays true of the board; and when T is
\* the only other sentence, the call changes S alone (to S minus T) if
\* T.cells is a strict subset of S.cells and T alone (to T minus S) if it
\* is a strict superset.
C17_DerivationFrame ==
    [][(op' = "check_knowledge" /\ Unresolved(knowledge[target'])) =>
          LET S == knowledge[target']
          IN /\ Len(knowledge') = Len(knowledge)
             /\ \A j \in 1..Len(knowledge) :
                    /\ knowledge'[j].cells \subseteq knowledge[j].cells
                    /\ knowledge'[j].count
                           = Cardinality(knowledge'[j].cells \cap board)
                    /\ j # target' =>
                           (knowledge[j].cells \ knowledge'[j].cells)
                               \subseteq S.cells
             /\ Len(knowledge) = 2 =>
                    \A j \in (1..2) \ {target'} :
                        LET T == knowledge[j]
                        IN /\ StrictSubset(T.cells, S.cells) =>
                                  /\ knowledge'[j] = T
                                  /\ knowledge'[target']
                                         = Sentence(S.cells \ T.cells,
                                                    S.count - T.count)
                           /\ StrictSubset(S.cells, T.cells) =>
                                  /\ knowledge'[j]
                                         = Sentence(T.cells \ S.cells,
                                                    T.count - S.count)
                                  /\ knowledge'[target'] = S
                           /\ (~StrictSubset(T.cells, S.cells)
                                   /\ ~StrictSubset(S.cells, T.cells)) =>
                                  knowledge' = knowledge]_vars

\* check_knowledge(S) has reduced S by a strict subset and then reduced a
\* second sentence, itself a strict subset of S when the call was made.
C17_Witness ==
    /\ op = "check_knowledge"
    /\ Len(start) = 3
    /\ Unresolved(start[target])
    /\ knowledge[target] # start[target]
    /\ \E j \in (1..3) \ {target} :
           /\ StrictSubset(start[j].cells, start[target].cells)
           /\ knowledge[j] # start[j]

\* C18: across every step of add_knowledge, mark_mine, mark_safe,
\* check_knowledge, make_safe_move and make_random_move, each of safes,
\* mines and moves_made after the step is a superset of the set before.
C18_SetsOnlyGrow ==
    [][/\ safes \subseteq safes'
       /\ mines \subseteq mines'
       /\ moves_made \subseteq moves_made']_vars

\* add_knowledge has returned with a second move recorded and with new
\* safe cells and new mines next to the ones known before the call.
C18_Witness ==
    /\ op = "add_knowledge"
    /\ Cardinality(moves_made) = 2
    /\ Cardinality(safes) >= 3
    /\ mines # {}

\* C19: whenever add_knowledge, mark_mine or mark_safe has returned, no
\* sentence of the active list contains a cell that is in safes or in
\* mines.
C19_KnownFactsPropagated ==
    op \in {"add_knowledge", "mark_mine", "mark_safe"} =>
        \A s \in Sentences : s.cells \cap (safes \cup mines) = {}

\* mark_mine(c) has returned after taking c out of a sentence that still
\* has other cells.
C19_Witness ==
    /\ op = "mark_mine"
    /\ arg \in mines
    /\ \E i \in 1..Len(knowledge) :
           /\ arg \in start[i].cells
           /\ knowledge[i].cells # {}
====
